---- MODULE Spec2Model ----
(***************************************************************************)
(* Model of the Matrix <-> Copilot bridge of bot/agent_proxy.py:           *)
(* CopilotAgent (session start/resume, event aggregation in send) and      *)
(* AgentProxyBot (message filter, acknowledgement, chunked delivery).      *)
(*                                                                         *)
(* Text is a sequence of code points; an ASCII code point is the           *)
(* one-character string, any other one is named "U+XXXX".                  *)
(***************************************************************************)
EXTENDS Integers, Sequences, FiniteSets, TLC

\* ------------------------------------------------------------------------
\* Bounds of the model
\* ------------------------------------------------------------------------
\* inbound transport messages per run
MaxMsgs == 2
\* session events received by one send call
MaxEvents == 3
\* session events received by one send call of a bridge run
MaxBridgeEvents == 2
\* transport sends that fail in one run
MaxSendFailures == 1
\* longest reply of the chunking specification, in chunks
MaxParts == 3
\* reply lengths tried on each side of a multiple of max_len
ChunkSlack == 5

\* ------------------------------------------------------------------------
\* Program constants and literals
\* ------------------------------------------------------------------------
max_len == 30000

NotInitialized == <<"U+274C", " ", "C", "o", "p", "i", "l", "o", "t", " ", "s", "e", "s", "s", "i", "o", "n", " ", "n", "o", "t", " ", "i", "n", "i", "t", "i", "a", "l", "i", "z", "e", "d">>

EmptyResponse == <<"(", "e", "m", "p", "t", "y", " ", "r", "e", "s", "p", "o", "n", "s", "e", ")">>

ErrorPrefix == <<"U+274C", " ", "C", "o", "p", "i", "l", "o", "t", " ", "e", "r", "r", "o", "r", ":", " ">>

WarnOpen == <<"\n", "\n", "U+26A0", "U+FE0F", " ", "*", "E", "r", "r", "o", "r", ":", " ">>

WarnClose == <<"*">>

ExcWarnOpen == <<"\n", "\n", "U+26A0", "U+FE0F", " ", "*", "(", "e", "r", "r", "o", "r", ":", " ">>

ExcWarnClose == <<")", "*">>

Thinking == <<"U+23F3", " ", "T", "h", "i", "n", "k", "i", "n", "g", ".", ".", ".">>

PartOpen == <<"*", "*", "[", "P", "a", "r", "t", " ">>

PartClose == <<"]", "*", "*", "\n">>

\* ------------------------------------------------------------------------
\* Text helpers (str.strip, "".join, str(int), slicing)
\* ------------------------------------------------------------------------
Whitespace == {" ", "\n", "\t"}

RECURSIVE LStrip(_)
LStrip(s) ==
    IF s # <<>> /\ Head(s) \in Whitespace THEN LStrip(Tail(s)) ELSE s

RECURSIVE RStrip(_)
RStrip(s) ==
    IF s # <<>> /\ s[Len(s)] \in Whitespace
    THEN RStrip(SubSeq(s, 1, Len(s) - 1))
    ELSE s

Strip(s) == RStrip(LStrip(s))

RECURSIVE Join(_)
Join(parts) ==
    IF parts = <<>> THEN <<>> ELSE Head(parts) \o Join(Tail(parts))

DigitChar(d) == <<"0", "1", "2", "3", "4", "5", "6", "7", "8", "9">>[d + 1]

RECURSIVE Str(_)
Str(n) ==
    IF n < 10 THEN <<DigitChar(n)>> ELSE Str(n \div 10) \o <<DigitChar(n % 10)>>

\* result[i:i + n] with a 0-based start, as Python slices it
Slice(s, i, n) ==
    SubSeq(s, i + 1, IF i + n < Len(s) THEN i + n ELSE Len(s))

\* ------------------------------------------------------------------------
\* Input domains
\* ------------------------------------------------------------------------
None == "None"

\* session ids found in the store, and the id the backend issues for a
\* fresh session (None: a handle without an identifier)
StoredIds == {"abc123", "stale9"}

FreshIds == {"new777", None}

\* the id issued in the runs of the whole bridge
BridgeFreshIds == {"new777"}

\* contents of the session file
FileContents ==
    [kind : {"absent", "empty", "malformed", "nonrecord", "nokey"}, sid : {None}]
    \cup [kind : {"record"}, sid : StoredIds \cup {""}]

\* delta fragments, backend error messages, exception texts
Fragments == {<<>>, <<" ">>, <<"f", "o", "o">>, <<"b", "a", "r">>}

ErrorMessages == {<<>>, <<"b", "o", "o", "m">>}

ExceptionTexts == {<<"E", "O", "F">>}

Delta(t) == [type |-> "delta", text |-> t]

Idle == [type |-> "idle", text |-> <<>>]

Error(t) == [type |-> "error", text |-> t]

Other == [type |-> "other", text |-> <<>>]

SendEvents ==
    {Delta(t) : t \in Fragments} \cup {Error(t) : t \in ErrorMessages}
        \cup {Idle, Other}

\* the events of the runs of the whole bridge
BridgeEvents == {Delta(<<"f", "o", "o">>), Idle}

BotUser == "@bot:localhost"

AdminUser == "@admin:localhost"

Senders == {BotUser, AdminUser, "@eve:localhost"}

TargetRoom == "!agent:localhost"

Rooms == {TargetRoom, "!other:localhost"}

Bodies == {<<" ">>, <<" ", "h", "i", "\n">>}

\* inbound messages: the admin's message in the target room, and the same
\* with another sender, another room or a blank body
Inbound ==
    {[sender |-> AdminUser, room |-> TargetRoom, body |-> <<" ", "h", "i", "\n">>]}
    \cup {[sender |-> s, room |-> TargetRoom, body |-> <<" ", "h", "i", "\n">>] : s \in Senders}
    \cup {[sender |-> AdminUser, room |-> r, body |-> <<" ", "h", "i", "\n">>] : r \in Rooms}
    \cup {[sender |-> AdminUser, room |-> TargetRoom, body |-> b] : b \in Bodies}

Calls == 1..MaxMsgs

VARIABLES
    file,               \* content of the session file (_session_file)
    backendKnown,       \* session ids the backend accepts
    apc,                \* position of CopilotAgent.start
    client,             \* CopilotClient: "none", "started", "stopped"
    cfg_sid,            \* session_cfg["session_id"], None when absent
    saved_id,           \* local saved_id of CopilotAgent.start
    session,            \* self.session
    resumed,            \* self.resumed, "unset" before the assignment
    requests,           \* create_session calls, in order
    call,               \* the frames of CopilotAgent.send, one per call
    listeners,          \* calls whose handle_event is subscribed
    prompts,            \* session.send calls, in order
    bpc,                \* position of main / AgentProxyBot.start
    room_id,            \* self.room_id
    startup_sync_done,  \* self._startup_sync_done
    callbacks,          \* _on_message registered with the transport
    msgs,               \* inbound messages handed to _on_message
    hpc,                \* position of each _on_message invocation
    part,               \* reply sends issued by each invocation
    room_sends          \* room_send calls, in order

agentVars == <<file, backendKnown, apc, client, cfg_sid, saved_id, session, resumed, requests>>

sendVars == <<call, listeners, prompts>>

botVars == <<bpc, room_id, startup_sync_done, callbacks, msgs, hpc, part, room_sends>>

vars == <<agentVars, sendVars, botVars>>

\* ------------------------------------------------------------------------
\* Session persistence helpers
\* ------------------------------------------------------------------------
Record(sid) == [kind |-> "record", sid |-> sid]

AbsentFile == [kind |-> "absent", sid |-> None]

EmptyFile == [kind |-> "empty", sid |-> None]

MalformedFile == [kind |-> "malformed", sid |-> None]

\* Python truthiness of an optional string
Truthy(s) == s # None /\ s # ""

\* the outcome of a call that leaves by an exception
Raises == "Raises"

\* lines 51-52, json.loads(path.read_text()).get("session_id"): json.loads
\* raises on empty or malformed content, .get raises on a value that is
\* not a record and gives None for a record without the key
parsed_session_id(f) ==
    CASE f.kind \in {"empty", "malformed", "nonrecord"} -> Raises
      [] f.kind = "nokey" -> None
      [] OTHER -> f.sid

\* load_saved_session without the except clause of lines 56-58
load_saved_session_uncaught(f) ==
    IF f.kind = "absent" THEN None ELSE parsed_session_id(f)

\* load_saved_session, lines 46-58: None for a missing file and for
\* whatever makes the try block raise
load_saved_session(f) ==
    IF f.kind = "absent"
    THEN None
    ELSE IF parsed_session_id(f) = Raises THEN None ELSE parsed_session_id(f)

\* save_session: write_text replaces the content, or raises and leaves the
\* old content, a truncated file or a partial one
save_session(sid, ok) ==
    IF ok THEN {Record(sid)} ELSE {file, EmptyFile, MalformedFile}

\* ------------------------------------------------------------------------
\* CopilotAgent.start
\* ------------------------------------------------------------------------
NoSession == [init |-> FALSE, sid |-> None]

Handle(sid) == [init |-> TRUE, sid |-> sid]

\* lines 119-123: persist the id when the handle has one, record resumed
Persist(sid, res) ==
    \/ /\ ~Truthy(sid)
       /\ file' = file
       /\ resumed' = res
       /\ apc' = "done"
    \/ /\ Truthy(sid)
       /\ file' \in save_session(sid, TRUE)
       /\ resumed' = res
       /\ apc' = "done"
    \/ /\ Truthy(sid)
       /\ file' \in save_session(sid, FALSE)
       /\ resumed' = resumed
       /\ apc' = "raised"

\* lines 85-108/116: the client starts, the store is read and the first
\* create_session request is issued
AgentConnect ==
    /\ bpc = "agent_start"
    /\ apc = "new"
    /\ client' = "started"
    /\ saved_id' = load_saved_session(file)
    /\ IF saved_id' = Raises
       THEN /\ cfg_sid' = None
            /\ apc' = "raised"
            /\ requests' = requests
       ELSE IF Truthy(saved_id')
       THEN /\ cfg_sid' = saved_id'
            /\ apc' = "resuming"
            /\ requests' = Append(requests, cfg_sid')
       ELSE /\ cfg_sid' = None
            /\ apc' = "creating"
            /\ requests' = Append(requests, cfg_sid')
    /\ UNCHANGED <<file, backendKnown, session, resumed, sendVars, botVars>>

\* line 86 raises: the connection cannot be established
AgentConnectFails ==
    /\ bpc = "agent_start"
    /\ apc = "new"
    /\ client' = "created"
    /\ apc' = "raised"
    /\ UNCHANGED <<file, backendKnown, cfg_sid, saved_id, session, resumed, requests, sendVars, botVars>>

\* the resumption succeeds but is not recorded, so the fresh creation of
\* line 116 follows
ResumeOkNotRecorded ==
    /\ apc = "resuming"
    /\ cfg_sid \in backendKnown
    /\ session' = Handle(cfg_sid)
    /\ requests' = Append(requests, cfg_sid)
    /\ apc' = "creating"
    /\ UNCHANGED <<file, backendKnown, client, cfg_sid, saved_id, resumed, sendVars, botVars>>

\* lines 108-110, 119-123: the backend accepts the saved id
ResumeOk ==
    /\ apc = "resuming"
    /\ cfg_sid \in backendKnown
    /\ session' = Handle(cfg_sid)
    /\ Persist(cfg_sid, TRUE)
    /\ UNCHANGED <<backendKnown, client, cfg_sid, saved_id, requests, sendVars, botVars>>

\* the rejected id left in the configuration of the fresh request
ResumeRejectedKeepsId ==
    /\ apc = "resuming"
    /\ cfg_sid \notin backendKnown
    /\ requests' = Append(requests, cfg_sid)
    /\ apc' = "creating"
    /\ UNCHANGED <<file, backendKnown, client, cfg_sid, saved_id, session, resumed, sendVars, botVars>>

\* lines 111-116: the backend rejects the saved id; the id is dropped from
\* the configuration and a fresh session is requested
ResumeRejected ==
    /\ apc = "resuming"
    /\ cfg_sid \notin backendKnown
    /\ cfg_sid' = None
    /\ requests' = Append(requests, cfg_sid')
    /\ apc' = "creating"
    /\ UNCHANGED <<file, backendKnown, client, saved_id, session, resumed, sendVars, botVars>>

\* lines 116-123: the fresh session is created
CreateOk(ids) ==
    /\ apc = "creating"
    /\ \E sid \in ids :
          /\ session' = Handle(sid)
          /\ Persist(sid, FALSE)
    /\ UNCHANGED <<backendKnown, client, cfg_sid, saved_id, requests, sendVars, botVars>>

\* line 116 raises
CreateFails ==
    /\ apc = "creating"
    /\ apc' = "raised"
    /\ UNCHANGED <<file, backendKnown, client, cfg_sid, saved_id, session, resumed, requests, sendVars, botVars>>

\* ------------------------------------------------------------------------
\* State after construction (CopilotAgent.__init__, AgentProxyBot.__init__)
\* ------------------------------------------------------------------------
NoMsg == [sender |-> None, room |-> None, body |-> <<>>]

\* error_holder is <<>> for [None] and <<msg>> once a message is recorded
\* exc is <<e>> once the except clause has caught e
\* subscribed: line 153 returned; unsub: how line 177 went, if it ran
NewCall == [pc |-> "idle", collected |-> <<>>, done_event |-> FALSE, error_holder |-> <<>>, evlog |-> <<>>, exc |-> <<>>, result |-> <<>>, subscribed |-> FALSE, unsub |-> "none"]

AgentConstructed ==
    /\ apc = "new"
    /\ client = "none"
    /\ cfg_sid = None
    /\ saved_id = None
    /\ session = NoSession
    /\ resumed = "unset"
    /\ requests = <<>>

BotConstructed ==
    /\ call = [c \in Calls |-> NewCall]
    /\ listeners = {}
    /\ prompts = <<>>
    /\ room_id = None
    /\ startup_sync_done = FALSE
    /\ callbacks = FALSE
    /\ msgs = [m \in Calls |-> NoMsg]
    /\ hpc = [m \in Calls |-> "none"]
    /\ part = [m \in Calls |-> 0]
    /\ room_sends = <<>>

Constructed == AgentConstructed /\ BotConstructed

\* ------------------------------------------------------------------------
\* CopilotAgent.send
\* ------------------------------------------------------------------------
\* handle_event inserting each fragment at the front of collected
handle_event_prepends(st, ev) ==
    LET seen == [st EXCEPT !.evlog = Append(@, ev)] IN
    CASE ev.type = "delta" ->
            IF ev.text # <<>>
            THEN [seen EXCEPT !.collected = <<ev.text>> \o @]
            ELSE seen
      [] ev.type = "idle" ->
            [seen EXCEPT !.done_event = TRUE]
      [] ev.type = "error" ->
            [seen EXCEPT !.error_holder = <<ev.text>>, !.done_event = TRUE]
      [] OTHER -> seen

\* handle_event, lines 139-151; evlog records what the listener received
handle_event(st, ev) ==
    LET seen == [st EXCEPT !.evlog = Append(@, ev)] IN
    CASE ev.type = "delta" ->
            IF ev.text # <<>>
            THEN [seen EXCEPT !.collected = Append(@, ev.text)]
            ELSE seen
      [] ev.type = "idle" ->
            [seen EXCEPT !.done_event = TRUE]
      [] ev.type = "error" ->
            [seen EXCEPT !.error_holder = <<ev.text>>, !.done_event = TRUE]
      [] OTHER -> seen

\* Resolve returning the joined buffer even when it strips to nothing
ResolveNoMarker(st) ==
    IF st.error_holder # <<>> /\ st.error_holder[1] # <<>>
    THEN LET partial == Strip(Join(st.collected)) IN
         IF partial # <<>>
         THEN partial \o WarnOpen \o st.error_holder[1] \o WarnClose
         ELSE ErrorPrefix \o st.error_holder[1]
    ELSE Join(st.collected)

\* lines 161-169: the value returned once done_event is set
Resolve(st) ==
    IF st.error_holder # <<>> /\ st.error_holder[1] # <<>>
    THEN LET partial == Strip(Join(st.collected)) IN
         IF partial # <<>>
         THEN partial \o WarnOpen \o st.error_holder[1] \o WarnClose
         ELSE ErrorPrefix \o st.error_holder[1]
    ELSE LET response == Join(st.collected) IN
         IF Strip(response) # <<>> THEN response ELSE EmptyResponse

\* lines 170-175: the value returned when session.send raises e
ExceptResult(st, e) ==
    LET partial == Strip(Join(st.collected)) IN
    IF partial # <<>>
    THEN partial \o ExcWarnOpen \o e \o ExcWarnClose
    ELSE ErrorPrefix \o e

\* lines 132-157, up to the suspension in session.send: the sentinel when
\* there is no session, else the listener is subscribed (or session.on
\* raises, outside the try) and the prompt is handed to the backend
SendEnter(c, prompt) ==
    \/ /\ ~session.init
       /\ call' = [call EXCEPT ![c] = [NewCall EXCEPT !.pc = "returned", !.result = NotInitialized]]
       /\ UNCHANGED <<listeners, prompts>>
    \/ /\ session.init
       /\ call' = [call EXCEPT ![c] = [NewCall EXCEPT !.pc = "dispatching", !.subscribed = TRUE]]
       /\ listeners' = listeners \cup {c}
       /\ prompts' = Append(prompts, prompt)
    \/ /\ session.init
       /\ call' = [call EXCEPT ![c] = [NewCall EXCEPT !.pc = "raised"]]
       /\ UNCHANGED <<listeners, prompts>>

\* lines 176-177: the finally clause; unsubscribe() returns, or raises and
\* its exception replaces the value being returned
Finish(c, st, value) ==
    \/ /\ call' = [call EXCEPT ![c] = [st EXCEPT !.pc = "returned", !.result = value, !.unsub = "ok"]]
       /\ listeners' = listeners \ {c}
    \/ /\ call' = [call EXCEPT ![c] = [st EXCEPT !.pc = "raised", !.unsub = "raised"]]
       /\ listeners' \in {listeners, listeners \ {c}}

\* line 157 returns; line 159 does not suspend when done_event is set
SendDispatched(c) ==
    /\ call[c].pc = "dispatching"
    /\ IF call[c].done_event
       THEN Finish(c, call[c], Resolve(call[c]))
       ELSE /\ call' = [call EXCEPT ![c].pc = "waiting"]
            /\ UNCHANGED listeners
    /\ UNCHANGED <<prompts, agentVars, botVars>>

\* line 157 raises and the except clause returns with no finally clause
SendDispatchRaisesNoFinally(c) ==
    /\ call[c].pc = "dispatching"
    /\ \E e \in ExceptionTexts :
          call' = [call EXCEPT ![c] = [@ EXCEPT !.exc = <<e>>, !.pc = "returned", !.result = ExceptResult(call[c], e)]]
    /\ UNCHANGED <<listeners, prompts, agentVars, botVars>>

\* line 157 raises
SendDispatchRaises(c) ==
    /\ call[c].pc = "dispatching"
    /\ \E e \in ExceptionTexts :
          Finish(c, [call[c] EXCEPT !.exc = <<e>>], ExceptResult(call[c], e))
    /\ UNCHANGED <<prompts, agentVars, botVars>>

\* line 159 resumes after done_event.set()
SendResume(c) ==
    /\ call[c].pc = "waiting"
    /\ call[c].done_event
    /\ Finish(c, call[c], Resolve(call[c]))
    /\ UNCHANGED <<prompts, agentVars, botVars>>

\* the task awaiting line 157 or line 159 is cancelled: CancelledError is
\* no Exception, so only the finally clause runs and the call leaves by
\* CancelledError, or by what unsubscribe() raises
SendCancelled(c) ==
    /\ call[c].pc \in {"dispatching", "waiting"}
    /\ \/ /\ call' = [call EXCEPT ![c].pc = "cancelled", ![c].unsub = "ok"]
          /\ listeners' = listeners \ {c}
       \/ /\ call' = [call EXCEPT ![c].pc = "raised", ![c].unsub = "raised"]
          /\ listeners' \in {listeners, listeners \ {c}}
    /\ UNCHANGED <<prompts, agentVars, botVars>>

\* the session dispatches one event to every subscribed listener
BackendEvent(ev, limit) ==
    /\ listeners # {}
    /\ \A c \in listeners : Len(call[c].evlog) < limit
    /\ call' = [c \in Calls |-> IF c \in listeners THEN handle_event(call[c], ev) ELSE call[c]]
    /\ UNCHANGED <<listeners, prompts, agentVars, botVars>>

\* a caller other than the bridge invokes send once
CallSend ==
    /\ call[1].pc = "idle"
    /\ \E b \in Bodies : SendEnter(1, Strip(b))
    /\ UNCHANGED <<agentVars, botVars>>

\* ------------------------------------------------------------------------
\* AgentProxyBot
\* ------------------------------------------------------------------------
\* the last line of the startup announcement and the farewell (the lines
\* above them are fixed for a run)
OnlineResumed == <<"U+1F504", " ", "R", "e", "s", "u", "m", "e", "d", " ", "p", "r", "i", "o", "r", " ", "s", "e", "s", "s", "i", "o", "n", ".">>

OnlineNew == <<"U+1F195", " ", "N", "e", "w", " ", "s", "e", "s", "s", "i", "o", "n", ".">>

Offline == <<"U+1F44B", " ", "g", "o", "i", "n", "g", " ", "o", "f", "f", "l", "i", "n", "e", ".">>

SendFailures == Cardinality({i \in 1..Len(room_sends) : ~room_sends[i].ok})

\* _send, lines 302-319: nothing without a room id; else one room_send,
\* whose exception is caught and logged. msg tags the send with the
\* inbound message it answers (0: announcements)
RoomSend(text, m) ==
    IF room_id = None
    THEN room_sends' = room_sends
    ELSE \E ok \in BOOLEAN :
            /\ ok \/ SendFailures < MaxSendFailures
            /\ room_sends' = Append(room_sends, [text |-> text, ok |-> ok, msg |-> m])

\* lines 205-216: the login succeeds and CopilotAgent.start is entered
Login ==
    /\ bpc = "new"
    /\ bpc' = "agent_start"
    /\ UNCHANGED <<room_id, startup_sync_done, callbacks, msgs, hpc, part, room_sends, agentVars, sendVars>>

\* lines 206-209: the login fails, sys.exit(1)
LoginFails ==
    /\ bpc = "new"
    /\ bpc' = "exited"
    /\ UNCHANGED <<room_id, startup_sync_done, callbacks, msgs, hpc, part, room_sends, agentVars, sendVars>>

\* CopilotAgent.start raised: main catches it and calls bot.stop()
AgentStartRaised ==
    /\ bpc = "agent_start"
    /\ apc = "raised"
    /\ bpc' = "stopping"
    /\ UNCHANGED <<room_id, startup_sync_done, callbacks, msgs, hpc, part, room_sends, agentVars, sendVars>>

\* line 245: the sync of _ensure_room brings a message of the room's
\* history; no callback is registered before line 222, nothing is called
EnsureRoomSyncMessage(m) ==
    /\ bpc = "agent_start"
    /\ apc = "done"
    /\ ~callbacks
    /\ hpc[m] = "none"
    /\ \A k \in Calls : (k < m => hpc[k] = "unheard") /\ (k > m => hpc[k] = "none")
    /\ \E msg \in Inbound : msgs' = [msgs EXCEPT ![m] = msg]
    /\ hpc' = [hpc EXCEPT ![m] = "unheard"]
    /\ UNCHANGED <<bpc, room_id, startup_sync_done, callbacks, part, room_sends, agentVars, sendVars>>

\* _ensure_room returning at line 252 without the assignment of line 250
EnsureRoomFoundUnset ==
    /\ bpc = "agent_start"
    /\ apc = "done"
    /\ room_id' = room_id
    /\ callbacks' = TRUE
    /\ bpc' = "initial_sync"
    /\ UNCHANGED <<startup_sync_done, msgs, hpc, part, room_sends, agentVars, sendVars>>

\* lines 245-252, 222-227: a room with the expected name exists; the
\* callbacks are registered and the initial sync starts
EnsureRoomFound ==
    /\ bpc = "agent_start"
    /\ apc = "done"
    /\ room_id' = TargetRoom
    /\ callbacks' = TRUE
    /\ bpc' = "initial_sync"
    /\ UNCHANGED <<startup_sync_done, msgs, hpc, part, room_sends, agentVars, sendVars>>

\* lines 245-259: no room has the expected name; room_create is issued
EnsureRoomCreate ==
    /\ bpc = "agent_start"
    /\ apc = "done"
    /\ bpc' = "room_create"
    /\ UNCHANGED <<room_id, startup_sync_done, callbacks, msgs, hpc, part, room_sends, agentVars, sendVars>>

\* lines 260-262, 222-227
RoomCreated ==
    /\ bpc = "room_create"
    /\ room_id' = TargetRoom
    /\ callbacks' = TRUE
    /\ bpc' = "initial_sync"
    /\ UNCHANGED <<startup_sync_done, msgs, hpc, part, room_sends, agentVars, sendVars>>

\* lines 263-265: sys.exit(1)
RoomCreateFails ==
    /\ bpc = "room_create"
    /\ bpc' = "exited"
    /\ UNCHANGED <<room_id, startup_sync_done, callbacks, msgs, hpc, part, room_sends, agentVars, sendVars>>

\* lines 227-237: the initial sync returns; the announcement is sent
InitialSyncDone ==
    /\ bpc = "initial_sync"
    /\ \A m \in Calls : hpc[m] \in {"none", "unheard", "dropped", "done"}
    /\ startup_sync_done' = TRUE
    /\ bpc' = "announce"
    /\ UNCHANGED <<room_id, callbacks, msgs, hpc, part, room_sends, agentVars, sendVars>>

\* lines 231-240: the announcement's room_send completes, sync_forever
Announced ==
    /\ bpc = "announce"
    /\ RoomSend(IF resumed = TRUE THEN OnlineResumed ELSE OnlineNew, 0)
    /\ bpc' = "sync_forever"
    /\ UNCHANGED <<room_id, startup_sync_done, callbacks, msgs, hpc, part, agentVars, sendVars>>

\* the filters without the test of the sender against admin_user
AcceptsAnySender(msg) ==
    /\ msg.sender # BotUser
    /\ startup_sync_done
    /\ ~(room_id # None /\ msg.room # room_id)
    /\ Strip(msg.body) # <<>>

\* the filters without the test of _startup_sync_done
AcceptsBeforeSync(msg) ==
    /\ msg.sender # BotUser
    /\ ~(room_id # None /\ msg.room # room_id)
    /\ msg.sender = AdminUser
    /\ Strip(msg.body) # <<>>

\* _on_message, lines 273-285: the filters
Accepts(msg) ==
    /\ msg.sender # BotUser
    /\ startup_sync_done
    /\ ~(room_id # None /\ msg.room # room_id)
    /\ msg.sender = AdminUser
    /\ Strip(msg.body) # <<>>

\* the transport hands the next message of a sync response to
\* _on_message and awaits it: lines 272-288, up to the suspension in the
\* acknowledgement's room_send
OnMessage(m) ==
    /\ callbacks
    /\ bpc \in {"initial_sync", "sync_forever"}
    /\ hpc[m] = "none"
    /\ \A k \in Calls : (k < m => hpc[k] \in {"unheard", "dropped", "done"}) /\ (k > m => hpc[k] = "none")
    /\ \E msg \in Inbound :
          /\ msgs' = [msgs EXCEPT ![m] = msg]
          /\ hpc' = [hpc EXCEPT ![m] = IF Accepts(msg) THEN "ack" ELSE "dropped"]
    /\ UNCHANGED <<bpc, room_id, startup_sync_done, callbacks, part, room_sends, agentVars, sendVars>>

\* copilot_agent.send started as a task of its own, _on_message returning
\* without awaiting it
OnMessageForwardDetached(m) ==
    /\ hpc[m] = "ack"
    /\ RoomSend(Thinking, m)
    /\ SendEnter(m, Strip(msgs[m].body))
    /\ hpc' = [hpc EXCEPT ![m] = "done"]
    /\ UNCHANGED <<bpc, room_id, startup_sync_done, callbacks, msgs, part, agentVars>>

\* copilot_agent.send called with the acknowledgement left out
OnMessageForwardNoAck(m) ==
    /\ hpc[m] = "ack"
    /\ SendEnter(m, Strip(msgs[m].body))
    /\ hpc' = [hpc EXCEPT ![m] = "in_send"]
    /\ UNCHANGED <<bpc, room_id, startup_sync_done, callbacks, msgs, part, room_sends, agentVars>>

\* lines 288-291: the acknowledgement's room_send completes and
\* copilot_agent.send is called and awaited
OnMessageForward(m) ==
    /\ hpc[m] = "ack"
    /\ RoomSend(Thinking, m)
    /\ SendEnter(m, Strip(msgs[m].body))
    /\ hpc' = [hpc EXCEPT ![m] = "in_send"]
    /\ UNCHANGED <<bpc, room_id, startup_sync_done, callbacks, msgs, part, agentVars>>

\* slices one character short: result[i:i + max_len - 1]
ChunksShort(result) ==
    [k \in 1..((Len(result) + max_len - 1) \div max_len) |-> Slice(result, (k - 1) * max_len, max_len - 1)]

\* result[i:i + max_len] for i in range(0, len(result), max_len)
Chunks(result) ==
    [k \in 1..((Len(result) + max_len - 1) \div max_len) |-> Slice(result, (k - 1) * max_len, max_len)]

PartLabel(i, n) == PartOpen \o Str(i) \o <<"/">> \o Str(n) \o PartClose

\* lines 294-300: the texts handed to _send for one result
Deliveries(result) ==
    IF Len(result) <= max_len
    THEN <<result>>
    ELSE LET chunks == Chunks(result) IN
         [i \in 1..Len(chunks) |-> PartLabel(i, Len(chunks)) \o chunks[i]]

\* the frame of a send call once _on_message has returned: its locals are
\* gone, its result stays for reference
Released(st) == [NewCall EXCEPT !.pc = st.pc, !.result = st.result, !.subscribed = st.subscribed, !.unsub = st.unsub]

\* _on_message returning after send without sending the reply
OnMessageSendPartSilent(m) ==
    /\ hpc[m] = "in_send"
    /\ call[m].pc = "returned"
    /\ hpc' = [hpc EXCEPT ![m] = "done"]
    /\ call' = [call EXCEPT ![m] = Released(@)]
    /\ UNCHANGED <<bpc, room_id, startup_sync_done, callbacks, msgs, part, room_sends, agentVars, listeners, prompts>>

\* lines 291-300: send has returned; the next reply text is sent
OnMessageSendPart(m) ==
    /\ hpc[m] = "in_send"
    /\ call[m].pc = "returned"
    /\ LET texts == Deliveries(call[m].result) IN
       /\ RoomSend(texts[part[m] + 1], m)
       /\ part' = [part EXCEPT ![m] = @ + 1]
       /\ hpc' = [hpc EXCEPT ![m] = IF part'[m] = Len(texts) THEN "done" ELSE "in_send"]
       /\ call' = IF part'[m] = Len(texts) THEN [call EXCEPT ![m] = Released(@)] ELSE call
    /\ UNCHANGED <<bpc, room_id, startup_sync_done, callbacks, msgs, agentVars, listeners, prompts>>

\* send raised: the exception leaves _on_message and sync_forever, main
\* catches it and calls bot.stop()
OnMessageRaises(m) ==
    /\ hpc[m] = "in_send"
    /\ call[m].pc = "raised"
    /\ hpc' = [hpc EXCEPT ![m] = "raised"]
    /\ bpc' = "stopping"
    /\ UNCHANGED <<room_id, startup_sync_done, callbacks, msgs, part, room_sends, agentVars, sendVars>>

\* AgentProxyBot.stop and CopilotAgent.stop, lines 321-326, 179-181, then
\* sys.exit(1) of line 344
BotStop ==
    /\ bpc = "stopping"
    /\ RoomSend(Offline, 0)
    /\ client' = IF client = "none" THEN "none" ELSE "stopped"
    /\ bpc' = "exited"
    /\ UNCHANGED <<file, backendKnown, apc, cfg_sid, saved_id, session, resumed, requests>>
    /\ UNCHANGED <<room_id, startup_sync_done, callbacks, msgs, hpc, part, sendVars>>

\* ------------------------------------------------------------------------
\* Specification of CopilotAgent.start over every store content
\* ------------------------------------------------------------------------
InitStart ==
    /\ Constructed
    /\ bpc = "agent_start"
    /\ file \in FileContents
    /\ backendKnown \in SUBSET StoredIds

NextStart ==
    \/ AgentConnect
    \/ AgentConnectFails
    \/ ResumeOk
    \/ ResumeRejected
    \/ CreateOk(FreshIds)
    \/ CreateFails

SpecStart == InitStart /\ [][NextStart]_vars

\* ------------------------------------------------------------------------
\* Specification of one CopilotAgent.send call over every event sequence
\* ------------------------------------------------------------------------
InitSend ==
    /\ BotConstructed
    /\ bpc = "external"
    /\ apc \in {"new", "done"}
    /\ file = IF apc = "done" THEN Record("new777") ELSE AbsentFile
    /\ backendKnown = {}
    /\ client = IF apc = "done" THEN "started" ELSE "none"
    /\ cfg_sid = None
    /\ saved_id = None
    /\ session = IF apc = "done" THEN Handle("new777") ELSE NoSession
    /\ resumed = IF apc = "done" THEN FALSE ELSE "unset"
    /\ requests = IF apc = "done" THEN <<None>> ELSE <<>>

NextSend ==
    \/ CallSend
    \/ \E ev \in SendEvents : BackendEvent(ev, MaxEvents)
    \/ SendDispatched(1)
    \/ SendDispatchRaises(1)
    \/ SendResume(1)
    \/ SendCancelled(1)

SpecSend == InitSend /\ [][NextSend]_vars

\* ------------------------------------------------------------------------
\* Properties of CopilotAgent.send (SpecSend)
\* ------------------------------------------------------------------------
\* the events a call received, without those handle_event ignores
RECURSIVE Relevant(_)
Relevant(log) ==
    IF log = <<>> THEN <<>>
    ELSE IF Head(log).type = "other" THEN Relevant(Tail(log))
    ELSE <<Head(log)>> \o Relevant(Tail(log))

Texts(log) == [i \in 1..Len(log) |-> log[i].text]

AllDeltas(log) == \A i \in 1..Len(log) : log[i].type = "delta"

Front(log) == SubSeq(log, 1, Len(log) - 1)

\* the call returned a value after session.send had returned normally and
\* its listener had received exactly: deltas, then one event of type last
Aggregated(c, last) ==
    LET log == Relevant(call[c].evlog) IN
    /\ call[c].pc = "returned"
    /\ call[c].exc = <<>>
    /\ log # <<>>
    /\ log[Len(log)].type = last
    /\ AllDeltas(Front(log))

Buffer(c) == Join(Texts(Front(Relevant(call[c].evlog))))

LastText(c) == LET log == Relevant(call[c].evlog) IN log[Len(log)].text

\* C3 (as stated): after deltas followed by idle, send returns the exact
\* concatenation of the delta fragments in emission order.
C3_ExactConcatenation ==
    \A c \in Calls : Aggregated(c, "idle") => call[c].result = Buffer(c)

\* C3 (amended): after deltas followed by idle, send returns the exact
\* concatenation of the fragments in emission order when it has a
\* non-whitespace character, and the "(empty response)" marker otherwise.
C3_ConcatenationOrMarker ==
    \A c \in Calls :
        Aggregated(c, "idle") =>
            call[c].result =
                IF Strip(Buffer(c)) # <<>> THEN Buffer(c) ELSE EmptyResponse

C3_Witness ==
    /\ Aggregated(1, "idle")
    /\ Relevant(call[1].evlog) = <<Delta(<<"f", "o", "o">>), Delta(<<"b", "a", "r">>), Idle>>
    /\ call[1].result = <<"f", "o", "o", "b", "a", "r">>

\* C4: a call to send never ends by raising to its caller; it always
\* returns a string.
C4_SendNeverRaises ==
    \A c \in Calls : call[c].pc # "raised"

\* C5: after one or more deltas followed by an error event, with a buffer
\* that holds visible text, send returns the buffer (stripped or not)
\* followed by the marked warning suffix with the backend message.
C5_PartialWithWarning ==
    \A c \in Calls :
        (Aggregated(c, "error") /\ Strip(Buffer(c)) # <<>>) =>
            \E prefix \in {Buffer(c), Strip(Buffer(c))} :
                call[c].result = prefix \o WarnOpen \o LastText(c) \o WarnClose

\* C6: after an error event with no prior delta, send returns the
\* error-prefixed string with the backend message, not a success form.
C6_ErrorNoPartial ==
    \A c \in Calls :
        (Aggregated(c, "error") /\ Len(Relevant(call[c].evlog)) = 1) =>
            /\ call[c].result = ErrorPrefix \o LastText(c)
            /\ call[c].result # EmptyResponse
            /\ call[c].result # Join(call[c].collected)

\* C7: after an idle event with no delta, or with deltas whose
\* concatenation is empty or whitespace-only, send returns the
\* "(empty response)" marker, never an empty string.
C7_EmptyMarker ==
    \A c \in Calls :
        (Aggregated(c, "idle") /\ Strip(Buffer(c)) = <<>>) =>
            /\ call[c].result = EmptyResponse
            /\ call[c].result # <<>>

C7_Witness ==
    /\ Aggregated(1, "idle")
    /\ Relevant(call[1].evlog) = <<Delta(<<" ">>), Idle>>
    /\ call[1].result = EmptyResponse

\* ------------------------------------------------------------------------
\* Specification of the whole bridge, from construction
\* ------------------------------------------------------------------------
\* store contents and backends of the bridge runs: no record, a record the
\* backend resumes, a record it rejects
StartCases == {<<AbsentFile, {}>>, <<Record("abc123"), {"abc123"}>>, <<Record("stale9"), {}>>}

Init ==
    /\ Constructed
    /\ bpc = "new"
    /\ \E start \in StartCases :
          /\ file = start[1]
          /\ backendKnown = start[2]

Next ==
    \/ Login
    \/ LoginFails
    \/ AgentConnect
    \/ AgentConnectFails
    \/ ResumeOk
    \/ ResumeRejected
    \/ CreateOk(BridgeFreshIds)
    \/ CreateFails
    \/ AgentStartRaised
    \/ \E m \in Calls : EnsureRoomSyncMessage(m)
    \/ EnsureRoomFound
    \/ EnsureRoomCreate
    \/ RoomCreated
    \/ RoomCreateFails
    \/ InitialSyncDone
    \/ Announced
    \/ \E m \in Calls : OnMessage(m)
    \/ \E m \in Calls : OnMessageForward(m)
    \/ \E m \in Calls : OnMessageSendPart(m)
    \/ \E m \in Calls : OnMessageRaises(m)
    \/ \E ev \in BridgeEvents : BackendEvent(ev, MaxBridgeEvents)
    \/ \E c \in Calls : SendDispatched(c)
    \/ \E c \in Calls : SendDispatchRaises(c)
    \/ \E c \in Calls : SendResume(c)
    \/ BotStop

Spec == Init /\ [][Next]_vars

\* ------------------------------------------------------------------------
\* Specification of chunked delivery over replies of every length class
\* ------------------------------------------------------------------------
TextAlphabet == <<"a", "b", " ", "c", "\n", "d", "e">>

LongText(n) == [i \in 1..n |-> TextAlphabet[(i % 7) + 1]]

ChunkLengths ==
    {n \in {k * max_len + d : k \in 0..MaxParts, d \in (0 - ChunkSlack)..ChunkSlack} :
        n >= 1 /\ n <= MaxParts * max_len}

Hi == <<" ", "h", "i", "\n">>

\* the bridge is listening, the admin's message was acknowledged and
\* send has just returned a reply of n characters
InitChunk ==
    /\ file = Record("new777")
    /\ backendKnown = {}
    /\ apc = "done"
    /\ client = "started"
    /\ cfg_sid = None
    /\ saved_id = None
    /\ session = Handle("new777")
    /\ resumed = FALSE
    /\ requests = <<None>>
    /\ listeners = {}
    /\ prompts = <<Strip(Hi)>>
    /\ bpc = "sync_forever"
    /\ room_id = TargetRoom
    /\ startup_sync_done = TRUE
    /\ callbacks = TRUE
    /\ msgs = [m \in Calls |-> IF m = 1 THEN [sender |-> AdminUser, room |-> TargetRoom, body |-> Hi] ELSE NoMsg]
    /\ hpc = [m \in Calls |-> IF m = 1 THEN "in_send" ELSE "none"]
    /\ part = [m \in Calls |-> 0]
    /\ room_sends = <<[text |-> OnlineNew, ok |-> TRUE, msg |-> 0], [text |-> Thinking, ok |-> TRUE, msg |-> 1]>>
    /\ \E n \in ChunkLengths :
          call = [c \in Calls |->
                    IF c = 1
                    THEN [NewCall EXCEPT !.pc = "returned", !.done_event = TRUE,
                                         !.collected = <<LongText(n)>>,
                                         !.evlog = <<Delta(LongText(n)), Idle>>,
                                         !.result = LongText(n)]
                    ELSE NewCall]

NextChunk == \E m \in Calls : OnMessageSendPart(m)

SpecChunk == InitChunk /\ [][NextChunk]_vars

\* ------------------------------------------------------------------------
\* Properties of the bridge
\* ------------------------------------------------------------------------
OpenCalls == {c \in Calls : call[c].pc \in {"dispatching", "waiting"}}

Invoked(c) == call[c].pc # "idle"

\* the texts sent on behalf of inbound message m, in order
SentFor(m) == SelectSeq(room_sends, LAMBDA e : e.msg = m)

\* the reply sends of message m: those after its acknowledgement
Replies(m) == LET sent == SentFor(m) IN [i \in 1..(Len(sent) - 1) |-> sent[i + 1].text]

\* C1: send invocations never overlap: at most one aggregation is open,
\* and a later message's send starts only after the earlier message's
\* reply was delivered in full.
C1_SingleFlight ==
    /\ Cardinality(OpenCalls) <= 1
    /\ Cardinality(listeners) <= 1
    /\ \A m, n \in Calls :
          (m < n /\ Invoked(m) /\ Invoked(n)) =>
              /\ call[m].pc = "returned"
              /\ hpc[m] = "done"
              /\ Replies(m) = Deliveries(call[m].result)

C1_Witness ==
    /\ hpc[1] = "done"
    /\ call[1].pc = "returned"
    /\ call[2].pc = "waiting"
    /\ Len(prompts) = 2

\* C2: a message whose sender is not the admin never reaches send and gets
\* neither an acknowledgement nor a reply.
C2_AdminOnly ==
    \A m \in Calls :
        (hpc[m] # "none" /\ msgs[m].sender # AdminUser) =>
            /\ hpc[m] \in {"unheard", "dropped"}
            /\ ~Invoked(m)
            /\ SentFor(m) = <<>>

C2_Witness ==
    /\ hpc[1] = "done"
    /\ msgs[2] = [sender |-> "@eve:localhost", room |-> TargetRoom, body |-> Hi]
    /\ hpc[2] = "dropped"
    /\ Len(prompts) = 1

\* C8: a reply of L > 0 characters is delivered in ceil(L / max_len) sends,
\* in order, each with at most max_len characters of the reply, labelled
\* [Part i/N] when N > 1, the bodies concatenating to the reply.
C8_ChunkingLaw ==
    \A m \in Calls :
        (hpc[m] = "done" /\ Len(call[m].result) > 0) =>
            LET text == call[m].result
                sent == Replies(m)
                n == (Len(text) + max_len - 1) \div max_len
                body(i) == SubSeq(sent[i], Len(PartLabel(i, n)) + 1, Len(sent[i]))
            IN  /\ Len(sent) = n
                /\ n = 1 => sent[1] = text
                /\ n > 1 =>
                      /\ \A i \in 1..n :
                            /\ SubSeq(sent[i], 1, Len(PartLabel(i, n))) = PartLabel(i, n)
                            /\ Len(body(i)) <= max_len
                      /\ Join([i \in 1..n |-> body(i)]) = text

C8_Witness ==
    /\ hpc[1] = "done"
    /\ Len(call[1].result) = 2 * max_len + 1
    /\ part[1] = 3

\* ------------------------------------------------------------------------
\* Properties of CopilotAgent.start (SpecStart)
\* ------------------------------------------------------------------------
Resumable == Truthy(saved_id) /\ saved_id \in backendKnown

\* C9: with a stored id the backend accepts, start ends with resumed =
\* true after exactly one create_session request, which carries that id.
C9_ResumeValid ==
    (apc = "done" /\ Resumable) =>
        /\ resumed = TRUE
        /\ requests = <<saved_id>>
        /\ session = Handle(saved_id)

C9_Witness ==
    /\ apc = "done"
    /\ saved_id = "abc123"
    /\ backendKnown = {"abc123"}
    /\ resumed = TRUE
    /\ requests = <<"abc123">>

\* C10 (as stated): with no record or a rejected id, start ends with
\* resumed = false, the fresh request carries no id and the store holds
\* the id of the new session.
C10_FreshPersisted ==
    (apc = "done" /\ ~Resumable) =>
        /\ resumed = FALSE
        /\ requests[Len(requests)] = None
        /\ Truthy(session.sid)
        /\ file = Record(session.sid)

\* C10 (amended): with no record or a rejected id, start ends with
\* resumed = false and the fresh request carries no id; the store then
\* holds the id of the new session when the session has one, and still
\* loads what it loaded before when the session has none.
C10_FreshPersistedIfIdentified ==
    (apc = "done" /\ ~Resumable) =>
        /\ resumed = FALSE
        /\ requests[Len(requests)] = None
        /\ session.init
        /\ Truthy(session.sid) => (file = Record(session.sid) /\ session.sid # saved_id)
        /\ ~Truthy(session.sid) => load_saved_session(file) = saved_id

C10_Witness ==
    /\ apc = "done"
    /\ saved_id = "stale9"
    /\ "stale9" \notin backendKnown
    /\ resumed = FALSE
    /\ requests = <<"stale9", None>>
    /\ file = Record("new777")

\* the store contents a session cannot be resumed from
Unresumable == {"absent", "empty", "malformed", "nonrecord", "nokey"}

\* the connection was established and start then left by an exception
FailedAfterConnect == apc = "raised" /\ client = "started"

\* C11: start raises only when the backend connection cannot be
\* established; no later failure (resumption, creation, persistence)
\* makes it raise.
C11_FatalOnlyOnConnect ==
    ~FailedAfterConnect

\* C12: a failure to write the session record is not fatal: once a
\* session is obtained, start completes and records the resumed flag.
C12_SaveNonFatal ==
    session.init => (apc = "done" /\ resumed \in BOOLEAN)

\* C13: a missing, empty or malformed record, content that is not a
\* record and a record without a session id all load as None, without an
\* exception, and start goes on to the fresh creation.
C13_LoadTolerant ==
    /\ (apc \in {"resuming", "creating"} /\ file.kind \in Unresumable) =>
          /\ saved_id = None
          /\ apc = "creating"
          /\ requests = <<None>>
    /\ (FailedAfterConnect /\ ~session.init) => requests # <<>>

C13_Witness ==
    /\ file.kind = "nonrecord"
    /\ apc = "creating"
    /\ saved_id = None
    /\ requests = <<None>>

\* C19: the record is replaced atomically: a store that held a complete
\* record when start loaded it holds a complete record ever after, also
\* when the write of save_session does not complete.
C19_AtomicReplace ==
    Truthy(saved_id) => file.kind = "record"

\* the send calls that have left, by any path
Finished == {c \in Calls : call[c].pc \in {"returned", "raised", "cancelled"}}

AdminHi == [sender |-> AdminUser, room |-> TargetRoom, body |-> <<" ", "h", "i", "\n">>]

\* C16: a message delivered before the startup sync has completed (in the
\* sync of _ensure_room or in the initial sync) causes no acknowledgement,
\* no call of CopilotAgent.send and no reply, then or later.
C16_NoReplyToHistory ==
    \A m \in Calls :
       (~startup_sync_done \/ hpc[m] \in {"unheard", "dropped"}) =>
          /\ hpc[m] \in {"none", "unheard", "dropped"}
          /\ ~Invoked(m)
          /\ SentFor(m) = <<>>

C16_Witness ==
    /\ startup_sync_done
    /\ bpc = "sync_forever"
    /\ msgs[1] = AdminHi
    /\ hpc[1] = "unheard"
    /\ msgs[2] = AdminHi
    /\ hpc[2] = "dropped"
    /\ prompts = <<>>

\* C17: while the message callback is registered the target room id is
\* set, it never changes once set, and no message of another room
\* reaches CopilotAgent.send.
C17_RoomFixed ==
    /\ [](callbacks => /\ room_id # None
                       /\ \A m \in Calls : Invoked(m) => msgs[m].room = room_id)
    /\ [][room_id # None => room_id' = room_id]_vars

C17_Witness ==
    /\ callbacks
    /\ room_id = TargetRoom
    /\ hpc[1] = "done"
    /\ msgs[2].sender = AdminUser
    /\ msgs[2].room # TargetRoom
    /\ hpc[2] = "dropped"

\* C18: when the process has exited after the backend connection was
\* established, the connection has been released (CopilotClient.stop)
\* and no listener is left subscribed.
C18_ReleasedOnExit ==
    (bpc = "exited" /\ client # "none") =>
       /\ client # "started"
       /\ listeners = {}

\* ------------------------------------------------------------------------
\* Specification of the listening bridge handling its first inbound
\* message, with replies of more than max_len characters. The event loop resumes every
\* coroutine that is ready and every network call of the bridge ends, by a
\* return or by an exception; nothing obliges the backend to emit events
\* or the room to carry messages.
\* ------------------------------------------------------------------------
HandleEvents == {Delta(<<"f", "o", "o">>), Delta(LongText(max_len + 1)), Idle}

InitHandle ==
    /\ file = Record("new777")
    /\ backendKnown = {}
    /\ apc = "done"
    /\ client = "started"
    /\ cfg_sid = None
    /\ saved_id = None
    /\ session = Handle("new777")
    /\ resumed = FALSE
    /\ requests = <<None>>
    /\ call = [c \in Calls |-> NewCall]
    /\ listeners = {}
    /\ prompts = <<>>
    /\ bpc = "sync_forever"
    /\ room_id = TargetRoom
    /\ startup_sync_done = TRUE
    /\ callbacks = TRUE
    /\ msgs = [m \in Calls |-> NoMsg]
    /\ hpc = [m \in Calls |-> "none"]
    /\ part = [m \in Calls |-> 0]
    /\ room_sends = <<[text |-> OnlineNew, ok |-> TRUE, msg |-> 0]>>

NextHandle ==
    \/ OnMessage(1)
    \/ OnMessageForward(1)
    \/ OnMessageSendPart(1)
    \/ OnMessageRaises(1)
    \/ \E ev \in HandleEvents : BackendEvent(ev, MaxBridgeEvents)
    \/ SendDispatched(1)
    \/ SendDispatchRaises(1)
    \/ SendResume(1)
    \/ BotStop

FairHandle ==
    /\ WF_vars(OnMessageForward(1))
    /\ WF_vars(OnMessageSendPart(1))
    /\ WF_vars(OnMessageRaises(1))
    /\ WF_vars(SendDispatched(1) \/ SendDispatchRaises(1))
    /\ WF_vars(SendResume(1))
    /\ WF_vars(BotStop)

SpecHandle == InitHandle /\ [][NextHandle]_vars /\ FairHandle

\* the reply texts of message m that reached the room
Delivered(m) ==
    LET sent == SentFor(m) IN
    {i \in 2..Len(sent) : sent[i].ok}

PromptIndex(c) == Cardinality({k \in 1..c : call[k].subscribed})

\* the acknowledgement was attempted, then send was invoked, and the
\* reply parts follow in part order once send has returned
OrderKept(m) ==
    /\ hpc[m] \in {"none", "unheard", "dropped", "ack"} => (~Invoked(m) /\ SentFor(m) = <<>>)
    /\ Invoked(m) => (SentFor(m) # <<>> /\ SentFor(m)[1].text = Thinking)
    /\ Replies(m) # <<>> => call[m].pc = "returned"
    /\ call[m].pc = "returned" => Replies(m) = SubSeq(Deliveries(call[m].result), 1, part[m])

\* C20 as stated: acknowledgement, then send with the message body, then
\* the reply parts in order.
C20_OrderWithBody ==
    \A m \in Calls :
       /\ OrderKept(m)
       /\ call[m].subscribed => prompts[PromptIndex(m)] = msgs[m].body

\* C20: acknowledgement, then send with the stripped message body, then
\* the reply parts in part order; no part before send has returned, no
\* send before the acknowledgement's room_send was attempted.
C20_OrderWithStrippedBody ==
    \A m \in Calls :
       /\ OrderKept(m)
       /\ call[m].subscribed => prompts[PromptIndex(m)] = Strip(msgs[m].body)

C20_Witness ==
    \E m \in Calls :
       /\ hpc[m] = "done"
       /\ Len(call[m].result) > max_len
       /\ Len(Replies(m)) = 2
       /\ prompts[PromptIndex(m)] = <<"h", "i">>

\* the events that set done_event: lines 146-151
IsTerminal(ev) == ev.type \in {"idle", "error"}

TerminalAt(log) == {i \in 1..Len(log) : IsTerminal(log[i])}

FirstTerminal(log) == CHOOSE i \in TerminalAt(log) : \A j \in TerminalAt(log) : i <= j

\* the first event of call c that set done_event was an idle event
IdleFirst(c) ==
    LET log == call[c].evlog IN
    /\ TerminalAt(log) # {}
    /\ log[FirstTerminal(log)].type = "idle"

\* the concatenation of the fragments call c received before that event
BeforeTerminal(c) ==
    LET log == call[c].evlog IN
    Join(Texts(Relevant(SubSeq(log, 1, FirstTerminal(log) - 1))))

\* C21: once an idle event was received, send returns the concatenation
\* of the fragments received before it (or the empty marker), whatever
\* delta or error events its listener receives before send resumes.
C21_IdleIsSuccess ==
    \A c \in Calls :
        (call[c].pc = "returned" /\ call[c].exc = <<>> /\ IdleFirst(c)) =>
            call[c].result =
                IF Strip(BeforeTerminal(c)) # <<>> THEN BeforeTerminal(c) ELSE EmptyResponse

\* C22: the listener is subscribed before the prompt is dispatched; after
\* a dispatch that returned, send returns only once an idle or error
\* event was received (nothing else ends the wait of line 159); and a call
\* that received such an event ends by returning, never by an exception.
C22_ReturnsOnTerminal ==
    /\ Len(prompts) = Cardinality({c \in Calls : call[c].subscribed})
    /\ \A c \in Calls :
          /\ call[c].pc \in {"dispatching", "waiting"} => c \in listeners
          /\ (call[c].pc = "returned" /\ call[c].subscribed /\ call[c].exc = <<>>) =>
                 (call[c].done_event /\ TerminalAt(call[c].evlog) # {})
          /\ (call[c].subscribed /\ TerminalAt(call[c].evlog) # {}) => call[c].pc # "raised"

====
